---------------------------- MODULE Spec2Model ----------------------------
(***************************************************************************)
(* A model of RubiksCubeRecognition/main.cpp: the per-face detection of    *)
(* colour blocks (CubeFaceAnalyzer), their assignment to a 3x3 grid, the   *)
(* colour matrix built from them, the rendering of a face and of the cube  *)
(* net (CubeVisualizer) and the loop of main() over the six face images.   *)
(*                                                                         *)
(* What OpenCV computes from pixels (thresholding, morphology, contour     *)
(* extraction, area and moments) is the model's input: an image is the     *)
(* list of contours that findContours yields for each colour mask, each    *)
(* with its area and its centroid.  What is drawn is recorded as the       *)
(* colour, code and label put at each place, not as pixels.                *)
(*                                                                         *)
(* Centroid coordinates are C++ floats.  They are counted here in units of *)
(* the float spacing of the binade they lie in, starting from a float with *)
(* an even mantissa: a difference and its half are then exact, and a sum   *)
(* that falls halfway between two floats rounds to the even one.           *)
(***************************************************************************)
EXTENDS Integers, Sequences, FiniteSets, TLC

VARIABLES
    \* main()
    pc,                 \* where main() stands
    i,                  \* the loop index of main()'s for loop, 0-based
    img,                \* the image loaded for face i: its contours, or <<>> when empty
    blocks,             \* the blocks analyzeCubeFace returned for face i
    allColorMatrices,   \* main(): the colour matrices pushed so far
    standardFaces,      \* main(): the standard faces drawn so far
    reorderedMatrices,  \* main(): the matrices in net order
    cubeNet,            \* the canvas drawCubeNet returned
    colorCount,         \* main(): the colour statistics
    \* the build
    tieRule,            \* how this build's std::sort leaves elements that compare equal
    \* history of main(), read by the properties only
    loadOutcome,        \* per face: "pending", "loaded" or "failed"
    matrixOrigin,       \* per pushed matrix: the index of the face it was derived from
    netOrigin,          \* per reordered matrix: the index of the face it was derived from
    \* assignToGrid and createColorMatrix on their own
    gpc, gInput, gList, gOut, gMatrix, gShuffled, gMatrix2,
    \* drawStandardFace and drawCubeNet on their own
    rpc, rMats, rFaces, rNet

mainVars == <<pc, i, img, blocks, allColorMatrices, standardFaces,
              reorderedMatrices, cubeNet, colorCount,
              loadOutcome, matrixOrigin, netOrigin>>
gridVars == <<gpc, gInput, gList, gOut, gMatrix, gShuffled, gMatrix2>>
renderVars == <<rpc, rMats, rFaces, rNet>>
vars == <<mainVars, tieRule, gridVars, renderVars>>

-----------------------------------------------------------------------------
(* Bounds of the model *)

\* centroid coordinates range over 0..MaxCoord
MaxCoord == 4
\* an image holds at most MaxContours contours
MaxContours == 10
\* drawCubeNet is given at most MaxNetInput matrices when checked on its own
MaxNetInput == 7

-----------------------------------------------------------------------------
(* Program constants *)

MinArea == 15000
MaxArea == 150000

\* colorTable, without the LAB thresholds (they act on pixels)
colorTable == <<
    [name |-> "Red",    drawColor |-> <<0, 0, 255>>,     code |-> "R"],
    [name |-> "Yellow", drawColor |-> <<0, 255, 255>>,   code |-> "Y"],
    [name |-> "Green",  drawColor |-> <<0, 255, 0>>,     code |-> "G"],
    [name |-> "Blue",   drawColor |-> <<255, 0, 0>>,     code |-> "B"],
    [name |-> "White",  drawColor |-> <<255, 255, 255>>, code |-> "W"],
    [name |-> "Pink",   drawColor |-> <<203, 192, 255>>, code |-> "P"] >>

ColorNames == {colorTable[k].name : k \in 1..Len(colorTable)}
ColorCodeSet == {colorTable[k].code : k \in 1..Len(colorTable)}

\* colorCodes as the constructor fills it: name -> code
colorCodes == [n \in ColorNames |->
    LET ks == {k \in 1..Len(colorTable) : colorTable[k].name = n}
        last == CHOOSE k \in ks : \A j \in ks : j <= k
    IN  colorTable[last].code]

\* getColorCodeMap(): code -> drawColor; a later entry overwrites an earlier one
getColorCodeMap == [c \in ColorCodeSet |->
    LET ks == {k \in 1..Len(colorTable) : colorTable[k].code = c}
        last == CHOOSE k \in ks : \A j \in ks : j <= k
    IN  colorTable[last].drawColor]

Blank == " "
Gray == <<128, 128, 128>>

faceNames == <<"Front", "Back", "Left", "Right", "Up", "Down">>
NumFaces == Len(faceNames)

\* drawCubeNet: facePositions as (x, y) and faceLabels
facePositions == << <<1, 0>>, <<0, 1>>, <<1, 1>>, <<2, 1>>, <<3, 1>>, <<1, 2>> >>
faceLabels == <<"Up", "Left", "Front", "Right", "Back", "Down">>

\* main(): order, 0-based indices into allColorMatrices
order == <<4, 2, 0, 3, 1, 5>>

\* the values an int that was never written may show
IndeterminateInts == {-1, 0}

\* what the two orders of equal elements are called
TieRules == {"input", "reverse"}

-----------------------------------------------------------------------------
(* Sequences *)

Reverse(s) == [k \in 1..Len(s) |-> s[Len(s) + 1 - k]]

Min(a, b) == IF a < b THEN a ELSE b

\* insert v into the ascending sequence s after every element not above it
RECURSIVE InsertAsc(_, _)
InsertAsc(s, v) ==
    IF s = <<>> THEN <<v>>
    ELSE IF v < s[Len(s)] THEN Append(InsertAsc(SubSeq(s, 1, Len(s) - 1), v), s[Len(s)])
    ELSE Append(s, v)

\* sort(yCoords.begin(), yCoords.end())
RECURSIVE SortAsc(_)
SortAsc(s) ==
    IF s = <<>> THEN <<>>
    ELSE InsertAsc(SortAsc(SubSeq(s, 1, Len(s) - 1)), s[Len(s)])


-----------------------------------------------------------------------------
(* CubeFaceAnalyzer::assignToGrid *)

\* a + (b - a) / 2 in float arithmetic, for floats a <= b: the difference and
\* its half are exact, the sum rounds to the nearest float, a tie to the even one
FloatMidpoint(a, b) ==
    LET d == b - a
        down == a + (d \div 2)
    IN  IF d % 2 = 0 THEN down
        ELSE IF down % 2 = 0 THEN down ELSE down + 1

\* the if / else if / else that gives a block its row
RowOf(y, rowThreshold1, rowThreshold2) ==
    IF y < rowThreshold1 THEN 0
    ELSE IF y < rowThreshold2 THEN 1
    ELSE 2

\* one step of the sort of rowBlocks by center.x: s holds indices into bl in
\* ascending x; elements of equal x are left in the order the build's sort gives
RECURSIVE InsertByX(_, _, _, _)
InsertByX(bl, s, k, tie) ==
    IF s = <<>> THEN <<k>>
    ELSE LET last == s[Len(s)]
             before == \/ bl[k].center.x < bl[last].center.x
                       \/ (tie = "reverse" /\ bl[k].center.x = bl[last].center.x)
         IN  IF before
             THEN Append(InsertByX(bl, SubSeq(s, 1, Len(s) - 1), k, tie), last)
             ELSE Append(s, k)

RECURSIVE SortByX(_, _, _)
SortByX(bl, s, tie) ==
    IF s = <<>> THEN <<>>
    ELSE InsertByX(bl, SortByX(bl, SubSeq(s, 1, Len(s) - 1), tie), s[Len(s)], tie)

\* compareColorBlocks(a, b)
compareColorBlocks(a, b) ==
    IF a.row # b.row THEN a.row < b.row ELSE a.col < b.col

RECURSIVE InsertBlock(_, _)
InsertBlock(s, b) ==
    IF s = <<>> THEN <<b>>
    ELSE IF compareColorBlocks(b, s[Len(s)])
         THEN Append(InsertBlock(SubSeq(s, 1, Len(s) - 1), b), s[Len(s)])
         ELSE Append(s, b)

\* sort(blocks.begin(), blocks.end(), compareColorBlocks)
RECURSIVE SortBlocks(_)
SortBlocks(s) ==
    IF s = <<>> THEN <<>>
    ELSE InsertBlock(SortBlocks(SubSeq(s, 1, Len(s) - 1)), s[Len(s)])

\* the place (from 1) of k in the sequence s of distinct values
IndexIn(s, k) == CHOOSE p \in 1..Len(s) : s[p] = k

\* assignToGrid(blocks): the blocks with row and col set, sorted by grid place
assignToGrid(bl, tie) ==
    LET idx == [k \in 1..Len(bl) |-> k]
        yCoords == SortAsc([k \in 1..Len(bl) |-> bl[k].center.y])
        rowThreshold1 == FloatMidpoint(yCoords[3], yCoords[4])
        rowThreshold2 == FloatMidpoint(yCoords[6], yCoords[7])
        withRow == [k \in 1..Len(bl) |->
                      [bl[k] EXCEPT !.row = RowOf(bl[k].center.y,
                                                  rowThreshold1, rowThreshold2)]]
        rowBlocks(r) == SortByX(bl, SelectSeq(idx, LAMBDA k : withRow[k].row = r), tie)
        withCol == [k \in 1..Len(bl) |->
                      [withRow[k] EXCEPT
                          !.col = IndexIn(rowBlocks(withRow[k].row), k) - 1]]
    IN  SortBlocks(withCol)

-----------------------------------------------------------------------------
(* CubeFaceAnalyzer::createColorMatrix *)

\* vector<vector<char>>(3, vector<char>(3, ' ')), rows and columns from 1
BlankMatrix == [r \in 1..3 |-> [c \in 1..3 |-> Blank]]

InGrid(b) == b.row >= 0 /\ b.row < 3 /\ b.col >= 0 /\ b.col < 3

\* StoreBlock with the two indices exchanged
StoreBlockTransposed(m, b) ==
    IF InGrid(b)
    THEN [m EXCEPT ![b.col + 1][b.row + 1] = colorCodes[b.colorName]]
    ELSE m

\* one turn of the loop over blocks
StoreBlock(m, b) ==
    IF InGrid(b)
    THEN [m EXCEPT ![b.row + 1][b.col + 1] = colorCodes[b.colorName]]
    ELSE m

RECURSIVE createColorMatrix(_)
createColorMatrix(bl) ==
    IF bl = <<>> THEN BlankMatrix
    ELSE StoreBlock(createColorMatrix(SubSeq(bl, 1, Len(bl) - 1)), bl[Len(bl)])

-----------------------------------------------------------------------------
(* assignToGrid and createColorMatrix on their own: nine blocks, handed over *)
(* in some order, are assigned to the grid and the matrix is built from the  *)
(* result.                                                                   *)

Coords == 0..MaxCoord

\* the three Y values of the rows and the three X values of the columns of the
\* nine blocks, in ascending order; equal values are allowed
AscendingTriples == {t \in Coords \X Coords \X Coords : t[1] <= t[2] /\ t[2] <= t[3]}

\* a block as analyzeCubeFace pushes it: row and col are not written there
NewBlock(y, x, name, area, gr, gc) ==
    [center |-> [x |-> x, y |-> y], colorName |-> name, area |-> area,
     row |-> gr, col |-> gc]

\* the colour of the k-th block of an input
NthColor(k) == colorTable[((k - 1) % Len(colorTable)) + 1].name

\* nine blocks, row by row: block (r, c) lies at (colX[c], rowY[r])
NineBlocks(rowY, colX, gr, gc) ==
    [k \in 1..9 |->
        NewBlock(rowY[((k - 1) \div 3) + 1], colX[((k - 1) % 3) + 1],
                 NthColor(k), MinArea, gr, gc)]

\* the list s turned by n places
Rotate(s, n) == [k \in 1..Len(s) |-> s[((k - 1 + n) % Len(s)) + 1]]

\* the orders in which a caller hands the list over
InputOrders(s) == {Rotate(s, n) : n \in 0..(Len(s) - 1)} \cup {Reverse(s)}

\* the orders in which the tagged list is read again
ShuffledOrders(s) == {Reverse(s), Rotate(s, 4)}

GridIdle ==
    /\ gpc = "idle"
    /\ gInput = <<>>
    /\ gList = <<>>
    /\ gOut = <<>>
    /\ gMatrix = BlankMatrix
    /\ gShuffled = <<>>
    /\ gMatrix2 = BlankMatrix

GridInit ==
    /\ gpc = "input"
    /\ \E rowY \in AscendingTriples, colX \in AscendingTriples :
          gInput = NineBlocks(rowY, colX, 0, 0)
    /\ gList = gInput
    /\ gOut = <<>>
    /\ gMatrix = BlankMatrix
    /\ gShuffled = <<>>
    /\ gMatrix2 = BlankMatrix

\* the caller's list, in the order the caller has it
GridPermute ==
    /\ gpc = "input"
    /\ gList' \in InputOrders(gInput)
    /\ gpc' = "permuted"
    /\ UNCHANGED <<gInput, gOut, gMatrix, gShuffled, gMatrix2>>
    /\ UNCHANGED <<mainVars, tieRule, renderVars>>

\* assignToGrid(gList)
GridAssign ==
    /\ gpc = "permuted"
    /\ gOut' = assignToGrid(gList, tieRule)
    /\ gpc' = "assigned"
    /\ UNCHANGED <<gInput, gList, gMatrix, gShuffled, gMatrix2>>
    /\ UNCHANGED <<mainVars, tieRule, renderVars>>

\* createColorMatrix on the tagged list, and on the same blocks in another order
GridMatrix ==
    /\ gpc = "assigned"
    /\ gMatrix' = createColorMatrix(gOut)
    /\ gShuffled' \in ShuffledOrders(gOut)
    /\ gMatrix2' = createColorMatrix(gShuffled')
    /\ gpc' = "done"
    /\ UNCHANGED <<gInput, gList, gOut>>
    /\ UNCHANGED <<mainVars, tieRule, renderVars>>

GridNext ==
    \/ GridPermute
    \/ GridAssign
    \/ GridMatrix

-----------------------------------------------------------------------------
(* CubeFaceAnalyzer::analyzeCubeFace *)

\* AreaAccepted with the two ends of the band rejected
AreaAcceptedStrict(area) == ~(area <= MinArea \/ area >= MaxArea)

\* AreaAccepted without the lower end of the band
AreaAcceptedNoFloor(area) == ~(area > MaxArea)

\* if (area < 15000 || area > 150000) continue;
AreaAccepted(area) == ~(area < MinArea \/ area > MaxArea)

\* what 0.0 / 0.0 leaves in a coordinate: a value that is no coordinate
NotANumber == -1

\* moments(contours[i]): m00 is the area enclosed by the contour, the value
\* contourArea gives for it, and m10 / m00, m01 / m00 its centre of mass; a
\* contour that encloses no area has all its moments zero
moments(ct) ==
    [m00 |-> ct.area, m10 |-> ct.cx * ct.area, m01 |-> ct.cy * ct.area]

\* Point2f center(m.m10 / m.m00, m.m01 / m.m00): the division is made whatever
\* m.m00 is
Centroid(m) ==
    IF m.m00 = 0
    THEN [x |-> NotANumber, y |-> NotANumber]
    ELSE [x |-> m.m10 \div m.m00, y |-> m.m01 \div m.m00]

\* the contours findContours yields for the mask of the colour called name
ContoursOf(image, name) == SelectSeq(image, LAMBDA ct : ct.color = name)

\* the inner loop: one block per accepted contour, in contour order; row and
\* col of a new block are not written and show gr and gc
RECURSIVE BlocksOfContours(_, _, _, _)
BlocksOfContours(cts, name, gr, gc) ==
    IF cts = <<>> THEN <<>>
    ELSE LET ct == cts[Len(cts)]
             before == BlocksOfContours(SubSeq(cts, 1, Len(cts) - 1), name, gr, gc)
             center == Centroid(moments(ct))
         IN  IF AreaAccepted(ct.area)
             THEN Append(before, NewBlock(center.y, center.x, name, ct.area, gr, gc))
             ELSE before

\* the outer loop over the first n entries of colorTable
RECURSIVE DetectBlocks(_, _, _, _)
DetectBlocks(image, n, gr, gc) ==
    IF n = 0 THEN <<>>
    ELSE DetectBlocks(image, n - 1, gr, gc)
         \o BlocksOfContours(ContoursOf(image, colorTable[n].name),
                             colorTable[n].name, gr, gc)

\* analyzeCubeFace(img, outputImg, draw): the blocks it returns
analyzeCubeFace(image, gr, gc, tie) ==
    LET allBlocks == DetectBlocks(image, Len(colorTable), gr, gc)
    IN  IF Len(allBlocks) = 9 THEN assignToGrid(allBlocks, tie) ELSE allBlocks

-----------------------------------------------------------------------------
(* CubeVisualizer *)

\* colorCodeMap.at(code): the colour, or the exception at() throws
MapAt(map, code) == IF code \in DOMAIN map THEN map[code] ELSE "out_of_range"

\* BlockColor without the find() before at()
BlockColorUnguarded(map, code) == MapAt(map, code)

\* the colour of a cell: gray unless find() finds the code
BlockColor(map, code) == IF code \in DOMAIN map THEN MapAt(map, code) ELSE Gray

\* the nine cells drawn for a matrix: the fill colour and the code written on it
DrawCells(colorMatrix, map) ==
    [r \in 1..3 |-> [c \in 1..3 |->
        [color |-> BlockColor(map, colorMatrix[r][c]), text |-> colorMatrix[r][c]]]]

\* drawStandardFace(colorMatrix, colorCodeMap, faceName)
drawStandardFace(colorMatrix, map, faceName) ==
    [label |-> faceName, cells |-> DrawCells(colorMatrix, map)]

\* no canvas yet
NoCanvas == <<>>

\* the 4x3 places of the net canvas, as (x, y)
NetPlaces == (0..3) \X (0..2)

\* a place of the canvas that holds the background only
EmptyPlace == [label |-> "", cells |-> <<>>]

\* NetLoopCount with the loop ending one face early
NetLoopCountShort(size) == Min(size, Len(facePositions) - 1)

\* the number of turns of: for (i = 0; i < size && i < 6; i++)
NetLoopCount(size) == Min(size, Len(facePositions))

\* the first n turns of the loop of drawCubeNet
RECURSIVE DrawNetFaces(_, _, _)
DrawNetFaces(mats, map, n) ==
    IF n = 0 THEN [p \in NetPlaces |-> EmptyPlace]
    ELSE [DrawNetFaces(mats, map, n - 1) EXCEPT
            ![facePositions[n]] = [label |-> faceLabels[n],
                                   cells |-> DrawCells(mats[n], map)]]

\* drawCubeNet(allColorMatrices, colorCodeMap)
drawCubeNet(mats, map) == DrawNetFaces(mats, map, NetLoopCount(Len(mats)))

-----------------------------------------------------------------------------
(* drawStandardFace and drawCubeNet on their own *)

\* a matrix with every calibrated code, the blank and a code of no colour
MixedMatrix == << <<"R", "Y", "G">>, <<"B", "W", "P">>, <<Blank, "X", "R">> >>
UniformMatrix == [r \in 1..3 |-> [c \in 1..3 |-> "G"]]
SampleMatrices == {BlankMatrix, MixedMatrix, UniformMatrix}

RECURSIVE SeqsUpTo(_, _)
SeqsUpTo(S, n) ==
    IF n = 0 THEN {<<>>}
    ELSE LET shorter == SeqsUpTo(S, n - 1)
         IN  shorter \cup {Append(q, e) : q \in {t \in shorter : Len(t) = n - 1}, e \in S}

RenderIdle ==
    /\ rpc = "idle"
    /\ rMats = <<>>
    /\ rFaces = <<>>
    /\ rNet = NoCanvas

RenderInit ==
    /\ rpc = "input"
    /\ rMats \in SeqsUpTo(SampleMatrices, MaxNetInput)
    /\ rFaces = <<>>
    /\ rNet = NoCanvas

\* drawStandardFace on one matrix of the list, with or without a caption
RenderStandardFace ==
    /\ rpc = "input"
    /\ \E k \in 1..Len(rMats), name \in {"", "Front"} :
          rFaces' = <<[matrix |-> rMats[k],
                       face |-> drawStandardFace(rMats[k], getColorCodeMap, name)]>>
    /\ rpc' = "face"
    /\ UNCHANGED <<rMats, rNet>>
    /\ UNCHANGED <<mainVars, tieRule, gridVars>>

\* drawCubeNet on the list
RenderCubeNet ==
    /\ rpc \in {"input", "face"}
    /\ rNet' = drawCubeNet(rMats, getColorCodeMap)
    /\ rpc' = "done"
    /\ UNCHANGED <<rMats, rFaces>>
    /\ UNCHANGED <<mainVars, tieRule, gridVars>>

RenderNext ==
    \/ RenderStandardFace
    \/ RenderCubeNet

-----------------------------------------------------------------------------
(* main() *)

\* the areas a contour is given: the two ends of the accepted band, the
\* values next to them, and 0, the area of a contour that encloses nothing
AreaSamples == {0, MinArea - 1, MinArea, MaxArea, MaxArea + 1}

\* the image of face f (from 0) with n contours: the first nine lie on a 3x3
\* lattice, the colours differ from face to face, the last contour has area a
Scene(f, n, a) ==
    [k \in 1..n |->
        [color |-> colorTable[((k + f - 1) % Len(colorTable)) + 1].name,
         area |-> IF k = n THEN a ELSE MinArea,
         cy |-> 2 * ((k - 1) \div 3),
         cx |-> 2 * ((k - 1) % 3)]]

\* the images imread may decode for face f
Scenes(f) == {Scene(f, n, a) : n \in (MaxContours - 1)..MaxContours, a \in AreaSamples}

\* the matrices of allColorMatrices that the loop over order pushes
RECURSIVE Reordered(_, _)
Reordered(all, n) ==
    IF n = 0 THEN <<>>
    ELSE LET idx == order[n]
             before == Reordered(all, n - 1)
         IN  IF idx < Len(all) THEN Append(before, all[idx + 1]) ELSE before

\* the statistics: for every code but the blank, the number of cells holding it
CountColors(all) ==
    LET cellsOf == {<<k, r, c>> : k \in 1..Len(all), r \in 1..3, c \in 1..3}
        codes == {all[t[1]][t[2]][t[3]] : t \in cellsOf} \ {Blank}
    IN  [code \in codes |->
            Cardinality({t \in cellsOf : all[t[1]][t[2]][t[3]] = code})]

MainIdle ==
    /\ pc = "idle"
    /\ i = 0
    /\ img = <<>>
    /\ blocks = <<>>
    /\ allColorMatrices = <<>>
    /\ standardFaces = <<>>
    /\ reorderedMatrices = <<>>
    /\ cubeNet = NoCanvas
    /\ colorCount = <<>>
    /\ loadOutcome = [f \in 0..(NumFaces - 1) |-> "pending"]
    /\ matrixOrigin = <<>>
    /\ netOrigin = <<>>

MainInit ==
    /\ pc = "load"
    /\ i = 0
    /\ img = <<>>
    /\ blocks = <<>>
    /\ allColorMatrices = <<>>
    /\ standardFaces = <<>>
    /\ reorderedMatrices = <<>>
    /\ cubeNet = NoCanvas
    /\ colorCount = <<>>
    /\ loadOutcome = [f \in 0..(NumFaces - 1) |-> "pending"]
    /\ matrixOrigin = <<>>
    /\ netOrigin = <<>>

\* LoadImageEmpty leaving the loop and the program instead of continuing
LoadImageEmptyStops ==
    /\ pc = "load"
    /\ i < NumFaces
    /\ loadOutcome' = [loadOutcome EXCEPT ![i] = "failed"]
    /\ pc' = "done"
    /\ UNCHANGED <<i, img, blocks, allColorMatrices, standardFaces,
                   reorderedMatrices, cubeNet, colorCount, matrixOrigin, netOrigin>>
    /\ UNCHANGED <<tieRule, gridVars, renderVars>>

\* loadImage returns an empty image: continue with the next face
LoadImageEmpty ==
    /\ pc = "load"
    /\ i < NumFaces
    /\ i' = i + 1
    /\ loadOutcome' = [loadOutcome EXCEPT ![i] = "failed"]
    /\ UNCHANGED <<pc, img, blocks, allColorMatrices, standardFaces,
                   reorderedMatrices, cubeNet, colorCount, matrixOrigin, netOrigin>>
    /\ UNCHANGED <<tieRule, gridVars, renderVars>>

\* loadImage returns the decoded image
LoadImageOk ==
    /\ pc = "load"
    /\ i < NumFaces
    /\ img' \in Scenes(i)
    /\ loadOutcome' = [loadOutcome EXCEPT ![i] = "loaded"]
    /\ pc' = "analyze"
    /\ UNCHANGED <<i, blocks, allColorMatrices, standardFaces,
                   reorderedMatrices, cubeNet, colorCount, matrixOrigin, netOrigin>>
    /\ UNCHANGED <<tieRule, gridVars, renderVars>>

\* blocks = analyzer.analyzeCubeFace(img, processedImg, true)
AnalyzeFace ==
    /\ pc = "analyze"
    /\ \E gr \in IndeterminateInts, gc \in IndeterminateInts :
          blocks' = analyzeCubeFace(img, gr, gc, tieRule)
    /\ pc' = "matrix"
    /\ UNCHANGED <<i, img, allColorMatrices, standardFaces,
                   reorderedMatrices, cubeNet, colorCount,
                   loadOutcome, matrixOrigin, netOrigin>>
    /\ UNCHANGED <<tieRule, gridVars, renderVars>>

\* colorMatrix = createColorMatrix(blocks); allColorMatrices.push_back(colorMatrix)
CreateMatrix ==
    /\ pc = "matrix"
    /\ allColorMatrices' = Append(allColorMatrices, createColorMatrix(blocks))
    /\ matrixOrigin' = Append(matrixOrigin, i)
    /\ pc' = "render"
    /\ UNCHANGED <<i, img, blocks, standardFaces,
                   reorderedMatrices, cubeNet, colorCount, loadOutcome, netOrigin>>
    /\ UNCHANGED <<tieRule, gridVars, renderVars>>

\* drawStandardFace, the comparison image, the files, and on to the next face
RenderFace ==
    /\ pc = "render"
    /\ standardFaces' =
          Append(standardFaces,
                 drawStandardFace(allColorMatrices[Len(allColorMatrices)],
                                  getColorCodeMap, faceNames[i + 1]))
    /\ img' = <<>>
    /\ blocks' = <<>>
    /\ i' = i + 1
    /\ pc' = "load"
    /\ UNCHANGED <<allColorMatrices, reorderedMatrices, cubeNet, colorCount,
                   loadOutcome, matrixOrigin, netOrigin>>
    /\ UNCHANGED <<tieRule, gridVars, renderVars>>

\* after the loop, with at least one matrix: the net and the statistics
NetStage ==
    /\ pc = "load"
    /\ i = NumFaces
    /\ Len(allColorMatrices) >= 1
    /\ reorderedMatrices' = Reordered(allColorMatrices, Len(order))
    /\ netOrigin' = Reordered(matrixOrigin, Len(order))
    /\ cubeNet' = drawCubeNet(reorderedMatrices', getColorCodeMap)
    /\ colorCount' = CountColors(allColorMatrices)
    /\ pc' = "done"
    /\ UNCHANGED <<i, img, blocks, allColorMatrices, standardFaces,
                   loadOutcome, matrixOrigin>>
    /\ UNCHANGED <<tieRule, gridVars, renderVars>>

\* after the loop, with no matrix: nothing is drawn
NoNet ==
    /\ pc = "load"
    /\ i = NumFaces
    /\ Len(allColorMatrices) = 0
    /\ pc' = "done"
    /\ UNCHANGED <<i, img, blocks, allColorMatrices, standardFaces,
                   reorderedMatrices, cubeNet, colorCount,
                   loadOutcome, matrixOrigin, netOrigin>>
    /\ UNCHANGED <<tieRule, gridVars, renderVars>>

Next ==
    \/ LoadImageEmpty
    \/ LoadImageOk
    \/ AnalyzeFace
    \/ CreateMatrix
    \/ RenderFace
    \/ NetStage
    \/ NoNet

-----------------------------------------------------------------------------
(* Specifications *)

\* main()
Init ==
    /\ MainInit
    /\ tieRule \in TieRules
    /\ GridIdle
    /\ RenderIdle

Spec == Init /\ [][Next]_vars

\* a step of main() is possible: the guards of the actions of Next, each of
\* which, once its guard holds, has a next state
CanRun ==
    \/ pc = "load" /\ i < NumFaces
    \/ pc = "analyze"
    \/ pc = "matrix"
    \/ pc = "render"
    \/ pc = "load" /\ i = NumFaces

\* main() runs on: no step of it waits for anything but the operator's key.
\* This is WF_vars(Next) with ENABLED <<Next>>_vars written out as CanRun.
FairSpec == Spec /\ (<>[]CanRun => []<><<Next>>_vars)

\* assignToGrid and createColorMatrix on nine blocks
GridSpecInit ==
    /\ MainIdle
    /\ tieRule \in TieRules
    /\ GridInit
    /\ RenderIdle

GridSpec == GridSpecInit /\ [][GridNext]_vars

\* drawStandardFace and drawCubeNet on a list of matrices
RenderSpecInit ==
    /\ MainIdle
    /\ tieRule = "input"
    /\ GridIdle
    /\ RenderInit

RenderSpec == RenderSpecInit /\ [][RenderNext]_vars

-----------------------------------------------------------------------------
(* Properties of assignToGrid (GridSpec) *)

GridAssigned == gpc \in {"assigned", "done"}

\* C1: after assignToGrid on nine blocks, whatever their centroids (equal Y or
\* X values included), every block has row and col in 0..2 and no two blocks
\* share a (row, col) pair.
C1_UniqueGridCells ==
    GridAssigned =>
        /\ \A k \in 1..Len(gOut) : gOut[k].row \in 0..2 /\ gOut[k].col \in 0..2
        /\ \A j, k \in 1..Len(gOut) :
              j # k => <<gOut[j].row, gOut[j].col>> # <<gOut[k].row, gOut[k].col>>

\* C5: assignToGrid on a permutation of the nine blocks gives the same sorted
\* grid as on the list itself: the same block, with the same row and col, at
\* every position.
C5_OrderInvariant ==
    GridAssigned => gOut = assignToGrid(gInput, tieRule)

\* the number of values of S below v
RankIn(S, v) == Cardinality({u \in S : u < v})

YsOf(bl) == {bl[k].center.y : k \in 1..Len(bl)}
XsOf(bl) == {bl[k].center.x : k \in 1..Len(bl)}

\* three distinct Y values, three distinct X values, every pair present once
IsPerfectLattice(bl) ==
    /\ Len(bl) = 9
    /\ Cardinality(YsOf(bl)) = 3
    /\ Cardinality(XsOf(bl)) = 3
    /\ \A y \in YsOf(bl), x \in XsOf(bl) :
          Cardinality({k \in 1..9 : bl[k].center.y = y /\ bl[k].center.x = x}) = 1

\* C6: on nine blocks whose centroids form a perfect 3x3 lattice, in any input
\* order, every block gets the rank of its Y as row and the rank of its X as
\* col, and the blocks come back in row-major order.
C6_LatticeRecovered ==
    (GridAssigned /\ IsPerfectLattice(gInput)) =>
        \A k \in 1..9 :
            /\ gOut[k].row = RankIn(YsOf(gInput), gOut[k].center.y)
            /\ gOut[k].col = RankIn(XsOf(gInput), gOut[k].center.x)
            /\ gOut[k].row = (k - 1) \div 3
            /\ gOut[k].col = (k - 1) % 3

-----------------------------------------------------------------------------
(* Properties of createColorMatrix (GridSpec) *)

\* the code colorTable gives the colour called name
CodeOfName(name) ==
    (CHOOSE e \in {colorTable[k] : k \in 1..Len(colorTable)} : e.name = name).code

\* the blocks of bl tagged (r, c)
TaggedAt(bl, r, c) == {k \in 1..Len(bl) : bl[k].row = r /\ bl[k].col = c}

\* C9: from the nine tagged blocks, in whatever list order, createColorMatrix
\* gives one and the same matrix: cell (r, c) holds the code of the block
\* tagged (r, c), and a cell no block is tagged to holds the blank.
C9_MatrixOfTaggedRegions ==
    gpc = "done" =>
        /\ gMatrix2 = gMatrix
        /\ \A r \in 0..2, c \in 0..2 :
              IF TaggedAt(gOut, r, c) = {}
              THEN gMatrix[r + 1][c + 1] = " "
              ELSE \A k \in TaggedAt(gOut, r, c) :
                      gMatrix[r + 1][c + 1] = CodeOfName(gOut[k].colorName)

\* the matrix was built twice, from two different orders of nine blocks of
\* which some are tagged outside the grid, and it holds codes and blanks
C9_Witness ==
    /\ gpc = "done"
    /\ Len(gOut) = 9
    /\ gShuffled # gOut
    /\ \E r \in 1..3, c \in 1..3 : gMatrix[r][c] = " "
    /\ \E r \in 1..3, c \in 1..3 : gMatrix[r][c] # " "
    /\ \E r \in 1..3, c \in 1..3 : gMatrix[r][c] # gMatrix[c][r]

-----------------------------------------------------------------------------
(* Properties of main() (Spec, FairSpec) *)

\* C2: when analyzeCubeFace detects a number of blocks other than nine, the
\* matrix createColorMatrix builds from the returned blocks has all nine cells
\* blank.
C2_MismatchLeavesBlank ==
    (pc = "render" /\ Len(blocks) # 9) =>
        \A r \in 1..3, c \in 1..3 :
            allColorMatrices[Len(allColorMatrices)][r][c] = " "

\* C3: in the final net, the matrix drawn at the place labelled with a face
\* name was derived from the image of the face of that name.
C3_NetLabelsMatchFaces ==
    (pc = "done" /\ DOMAIN cubeNet # {}) =>
        \A k \in 1..Len(reorderedMatrices) :
            k <= 6 =>
                /\ cubeNet[facePositions[k]].cells
                      = DrawCells(reorderedMatrices[k], getColorCodeMap)
                /\ cubeNet[facePositions[k]].label = faceNames[netOrigin[k] + 1]

\* the faces below n whose image loaded, in input order
RECURSIVE LoadedBelow(_)
LoadedBelow(n) ==
    IF n = 0 THEN <<>>
    ELSE IF loadOutcome[n - 1] = "loaded"
         THEN Append(LoadedBelow(n - 1), n - 1)
         ELSE LoadedBelow(n - 1)

\* the faces whose matrix is due: those before i, and i once its matrix is pushed
MatricesDue == LoadedBelow(IF pc = "render" THEN i + 1 ELSE i)

C4_MatricesFollowLoads ==
    /\ Len(allColorMatrices) = Len(matrixOrigin)
    /\ matrixOrigin = MatricesDue
    /\ \A k \in 1..Len(matrixOrigin) : loadOutcome[matrixOrigin[k]] # "failed"

C4_NetWhenAnyMatrix ==
    pc = "done" =>
        /\ i = 6
        /\ \A f \in 0..5 : loadOutcome[f] # "pending"
        /\ (DOMAIN cubeNet # {}) <=> (Len(allColorMatrices) >= 1)

\* C4: whatever the six loads give, the run ends; a face that fails to load
\* adds no matrix, a face that loads adds exactly one, in input order; the loop
\* goes through all six faces, and the net and statistics stage is run exactly
\* when there is at least one matrix.
C4_RunCompletes ==
    /\ <>(pc = "done")
    /\ [](C4_MatricesFollowLoads)
    /\ [](C4_NetWhenAnyMatrix)

\* the run has ended after loads that failed and loads that succeeded, a
\* failed one before a loaded one, and the net was drawn
C4_Witness ==
    /\ pc = "done"
    /\ loadOutcome[0] = "failed"
    /\ loadOutcome[1] = "loaded"
    /\ loadOutcome[5] = "failed"
    /\ Len(allColorMatrices) = Cardinality({f \in 0..5 : loadOutcome[f] = "loaded"})
    /\ DOMAIN cubeNet # {}

\* C7: a contour yields a block exactly when 15000 <= area <= 150000.
C7_AreaFilter ==
    pc = "matrix" =>
        LET inBand(k) == 15000 <= img[k].area /\ img[k].area <= 150000
            blockOf(k) == {j \in 1..Len(blocks) :
                              /\ blocks[j].center = [x |-> img[k].cx, y |-> img[k].cy]
                              /\ blocks[j].colorName = img[k].color
                              /\ blocks[j].area = img[k].area}
        IN  /\ \A k \in 1..Len(img) : inBand(k) <=> blockOf(k) # {}
            /\ Len(blocks) = Cardinality({k \in 1..Len(img) : inBand(k)})

\* an image with a contour of area 15000 that gave a block and one of area
\* 150001 that gave none
C7_Witness ==
    /\ pc = "matrix"
    /\ \E k \in 1..Len(img) :
          /\ img[k].area = 15000
          /\ \E j \in 1..Len(blocks) :
                blocks[j].area = 15000 /\ blocks[j].colorName = img[k].color
    /\ \E k \in 1..Len(img) :
          /\ img[k].area = 150001
          /\ \A j \in 1..Len(blocks) : blocks[j].area # 150001
    /\ Len(blocks) = Len(img) - 1

\* the blocks made from contour k of the image
BlocksFrom(k) ==
    {j \in 1..Len(blocks) :
        blocks[j].colorName = img[k].color /\ blocks[j].area = img[k].area}

\* C11: a contour whose zeroth-order moment is zero is skipped on its own: it
\* yields no block, no block has a centre computed by a division by a zero
\* moment, and every other contour of the image whose area is in the band
\* still yields its block.
C11_ZeroMomentSkipped ==
    pc = "matrix" =>
        /\ \A k \in 1..Len(img) :
              moments(img[k]).m00 = 0 => BlocksFrom(k) = {}
        /\ \A j \in 1..Len(blocks) :
              \E k \in 1..Len(img) :
                  /\ j \in BlocksFrom(k)
                  /\ moments(img[k]).m00 # 0
                  /\ blocks[j].center.x * moments(img[k]).m00 = moments(img[k]).m10
                  /\ blocks[j].center.y * moments(img[k]).m00 = moments(img[k]).m01
        /\ \A k \in 1..Len(img) :
              (moments(img[k]).m00 # 0
                  /\ 15000 <= img[k].area /\ img[k].area <= 150000)
                  => BlocksFrom(k) # {}

\* an image of nine contours in the band and a tenth of zero moment gave nine
\* blocks, which were assigned to the grid
C11_Witness ==
    /\ pc = "matrix"
    /\ Len(img) = 10
    /\ moments(img[10]).m00 = 0
    /\ Len(blocks) = 9
    /\ \A j \in 1..9 : blocks[j].row = (j - 1) \div 3 /\ blocks[j].col = (j - 1) % 3

-----------------------------------------------------------------------------
(* Properties of drawStandardFace and drawCubeNet (RenderSpec) *)

\* what a cell holding code is to be filled with
ExpectedColor(code) ==
    IF \E k \in 1..Len(colorTable) : colorTable[k].code = code
    THEN (CHOOSE e \in {colorTable[k] : k \in 1..Len(colorTable)} : e.code = code).drawColor
    ELSE <<128, 128, 128>>

\* the nine cells drawn for matrix m are filled as expected
CellsAsExpected(cells, m) ==
    /\ DOMAIN cells = 1..3
    /\ \A r \in 1..3, c \in 1..3 :
          /\ cells[r][c].color # "out_of_range"
          /\ cells[r][c].color = ExpectedColor(m[r][c])
          /\ cells[r][c].text = m[r][c]

\* C8: drawStandardFace and drawCubeNet do not fail on any 3x3 matrix: a cell
\* whose code is none of the six calibrated codes (the blank included) is gray
\* (128,128,128), a cell with a calibrated code has that code's display colour.
C8_CellColors ==
    /\ \A k \in 1..Len(rFaces) : CellsAsExpected(rFaces[k].face.cells, rFaces[k].matrix)
    /\ rpc = "done" =>
          \A k \in 1..Len(rMats) :
              k <= 6 => CellsAsExpected(rNet[facePositions[k]].cells, rMats[k])

\* a face was drawn from the matrix with calibrated codes, the blank and an
\* unknown code, and the net was drawn with an all-blank matrix in it
C8_Witness ==
    /\ rpc = "done"
    /\ Len(rFaces) = 1
    /\ rFaces[1].matrix = MixedMatrix
    /\ rFaces[1].face.cells[3][2].color = <<128, 128, 128>>
    /\ rFaces[1].face.cells[1][1].color = <<0, 0, 255>>
    /\ \E k \in 1..Len(rMats) :
          /\ k <= 6
          /\ rMats[k] = BlankMatrix
          /\ rNet[facePositions[k]].cells[2][2].color = <<128, 128, 128>>

\* the fixed layout of the net: label and place (x, y), in order
C10_Layout ==
    << <<"Up", <<1, 0>> >>, <<"Left", <<0, 1>> >>, <<"Front", <<1, 1>> >>,
       <<"Right", <<2, 1>> >>, <<"Back", <<3, 1>> >>, <<"Down", <<1, 2>> >> >>

\* C10: drawCubeNet on n matrices draws min(n, 6) faces: the i-th matrix, for
\* i up to the sixth, at the i-th place of the layout under that place's label;
\* later matrices are not drawn and the other places keep the background.
C10_NetDrawsFirstSix ==
    rpc = "done" =>
        LET n == IF Len(rMats) < 6 THEN Len(rMats) ELSE 6
            used == {C10_Layout[k][2] : k \in 1..n}
        IN  /\ DOMAIN rNet = (0..3) \X (0..2)
            /\ \A k \in 1..n :
                  /\ rNet[C10_Layout[k][2]].label = C10_Layout[k][1]
                  /\ CellsAsExpected(rNet[C10_Layout[k][2]].cells, rMats[k])
            /\ \A p \in DOMAIN rNet :
                  p \notin used => rNet[p] = [label |-> "", cells |-> <<>>]
            /\ Cardinality({p \in DOMAIN rNet : rNet[p].label # ""}) = n

\* the net was drawn from seven matrices, the seventh unlike the others
C10_Witness ==
    /\ rpc = "done"
    /\ Len(rMats) = 7
    /\ \A k \in 1..6 : rMats[k] # rMats[7]
    /\ Cardinality({p \in DOMAIN rNet : rNet[p].label # ""}) = 6

=============================================================================
